---- MODULE Spec2Model ----
(***************************************************************************)
(* Model of the shared validation layer of the medication-management       *)
(* application: the primitive format checkers, the three record            *)
(* validators and isInsuranceActive, as state machine of a caller that     *)
(* builds a record, edits it and passes it to the exported functions.      *)
(*                                                                         *)
(* JavaScript values are tagged records; strings are sequences of          *)
(* one-character strings so that the regular expressions, trim,            *)
(* toUpperCase and Date parsing are computed on their characters.          *)
(***************************************************************************)
EXTENDS Integers, Sequences, FiniteSets, TLC

(***************************************************************************)
(* Bounds of the model.                                                    *)
(***************************************************************************)
\* how many places of its template the caller assigns before a call
MaxEdits == 1
\* instants modelled per UTC day (instant 0 is midnight)
TicksPerDay == 3

(***************************************************************************)
(* JavaScript values.                                                      *)
(*   a number n is held as x2 = 2*n, so 1.5 is x2 = 3; NaN is its own tag  *)
(***************************************************************************)
Undefined == [t |-> "undefined"]
Null      == [t |-> "null"]
NaN       == [t |-> "NaN"]
Bool(b)   == [t |-> "boolean", b |-> b]
Num(n)    == [t |-> "number", x2 |-> 2 * n]
Half(k)   == [t |-> "number", x2 |-> k]
Str(s)    == [t |-> "string", s |-> s]
Obj(f)    == [t |-> "object", f |-> f]
EmptyObj  == [t |-> "object", f |-> <<>>]

\* typeof v
TypeOf(v) ==
  CASE v.t = "undefined" -> "undefined"
    [] v.t = "null"      -> "object"
    [] v.t = "NaN"       -> "number"
    [] OTHER             -> v.t

\* ToBoolean(v): the test of `if (v)`, `!v`, `a && b`
Truthy(v) ==
  CASE v.t = "undefined" -> FALSE
    [] v.t = "null"      -> FALSE
    [] v.t = "NaN"       -> FALSE
    [] v.t = "boolean"   -> v.b
    [] v.t = "number"    -> v.x2 # 0
    [] v.t = "string"    -> Len(v.s) > 0
    [] OTHER             -> TRUE

\* o.name: a missing property, and any property of a primitive, is undefined
Get(o, name) ==
  IF o.t = "object" /\ name \in DOMAIN o.f THEN o.f[name] ELSE Undefined

(***************************************************************************)
(* Characters and strings.                                                 *)
(***************************************************************************)
Digits == <<"0","1","2","3","4","5","6","7","8","9">>
Lower  == <<"a","b","c","d","e","f","g","h","i","j","k","l","m",
            "n","o","p","q","r","s","t","u","v","w","x","y","z">>
Upper  == <<"A","B","C","D","E","F","G","H","I","J","K","L","M",
            "N","O","P","Q","R","S","T","U","V","W","X","Y","Z">>

IsDigit(c) == \E i \in 1..10 : Digits[i] = c
DigitVal(c) == (CHOOSE i \in 1..10 : Digits[i] = c) - 1
\* \s of a regular expression and the white space trim() strips
IsSpace(c) == c \in {" ", "\t", "\n"}
AllDigits(s) == \A i \in 1..Len(s) : IsDigit(s[i])

\* the value of a run of decimal digits
RECURSIVE DigitsVal(_)
DigitsVal(s) ==
  IF Len(s) = 0 THEN 0
  ELSE 10 * DigitsVal(SubSeq(s, 1, Len(s) - 1)) + DigitVal(s[Len(s)])

\* the decimal digits of n >= 0
RECURSIVE NatToDigits(_)
NatToDigits(n) ==
  IF n < 10 THEN <<Digits[n + 1]>>
  ELSE NatToDigits(n \div 10) \o <<Digits[(n % 10) + 1]>>

\* String.prototype.trim
RECURSIVE TrimLeft(_)
TrimLeft(s) ==
  IF Len(s) > 0 /\ IsSpace(s[1]) THEN TrimLeft(Tail(s)) ELSE s
RECURSIVE TrimRight(_)
TrimRight(s) ==
  IF Len(s) > 0 /\ IsSpace(s[Len(s)]) THEN TrimRight(SubSeq(s, 1, Len(s) - 1)) ELSE s
Trim(s) == TrimRight(TrimLeft(s))

\* String.prototype.toUpperCase
UpperChar(c) ==
  IF \E i \in 1..26 : Lower[i] = c
  THEN Upper[CHOOSE i \in 1..26 : Lower[i] = c]
  ELSE c
ToUpperCase(s) == [i \in 1..Len(s) |-> UpperChar(s[i])]

\* ToStr(v), as RegExp.prototype.test applies it to its argument
ToStr(v) ==
  CASE v.t = "string"    -> v.s
    [] v.t = "undefined" -> <<"u","n","d","e","f","i","n","e","d">>
    [] v.t = "null"      -> <<"n","u","l","l">>
    [] v.t = "NaN"       -> <<"N","a","N">>
    [] v.t = "boolean"   -> IF v.b THEN <<"t","r","u","e">> ELSE <<"f","a","l","s","e">>
    [] v.t = "number"    ->
         LET a == IF v.x2 < 0 THEN 0 - v.x2 ELSE v.x2
             whole == NatToDigits(a \div 2)
             frac == IF a % 2 = 1 THEN <<".","5">> ELSE <<>>
         IN  (IF v.x2 < 0 THEN <<"-">> ELSE <<>>) \o whole \o frac
    [] OTHER             ->
         <<"[","o","b","j","e","c","t"," ","O","b","j","e","c","t","]">>

(***************************************************************************)
(* Domain vocabulary (constants.js).                                       *)
(***************************************************************************)
InsurancePlanType ==
  << <<"H","M","O">>, <<"P","P","O">>, <<"E","P","O">>, <<"P","O","S">>, <<"H","D","H","P">> >>
PrescriptionStatus ==
  << <<"P","E","N","D","I","N","G">>,
     <<"S","U","B","M","I","T","T","E","D">>,
     <<"A","P","P","R","O","V","E","D">>,
     <<"D","E","N","I","E","D">>,
     <<"P","R","I","O","R","_","A","U","T","H","_","R","E","Q","U","I","R","E","D">>,
     <<"F","I","L","L","E","D">>,
     <<"P","I","C","K","E","D","_","U","P">>,
     <<"C","A","N","C","E","L","L","E","D">> >>
MedicationForm ==
  << <<"T","A","B","L","E","T">>,
     <<"C","A","P","S","U","L","E">>,
     <<"L","I","Q","U","I","D">>,
     <<"I","N","J","E","C","T","I","O","N">>,
     <<"C","R","E","A","M">>,
     <<"I","N","H","A","L","E","R">>,
     <<"P","A","T","C","H">>,
     <<"O","T","H","E","R">> >>

\* Object.values(X).includes(v): SameValueZero, so only a string can be found
Includes(list, v) ==
  v.t = "string" /\ \E i \in 1..Len(list) : list[i] = v.s

(***************************************************************************)
(* Dates.  A time value is counted in ticks, TicksPerDay to the UTC day,   *)
(* from 1970-01-01T00:00Z; an Invalid Date has the time value NaN.         *)
(***************************************************************************)
TimeNaN  == [nan |-> TRUE, tv |-> 0]
Time(tv) == [nan |-> FALSE, tv |-> tv]

IsLeap(y) == (y % 4 = 0 /\ y % 100 # 0) \/ y % 400 = 0
DaysInMonth(y, m) ==
  CASE m \in {4, 6, 9, 11} -> 30
    [] m = 2               -> IF IsLeap(y) THEN 29 ELSE 28
    [] OTHER               -> 31

\* MakeDay(year, month, date): the day number of a civil date; a date past the
\* end of its month runs on into the next one
MakeDay(y, m, d) ==
  LET yy  == IF m <= 2 THEN y - 1 ELSE y
      era == yy \div 400
      yoe == yy - era * 400
      mp  == (m + 9) % 12
      doy == (153 * mp + 2) \div 5
      doe == yoe * 365 + yoe \div 4 - yoe \div 100 + doy
  IN  era * 146097 + doe - 719468 + (d - 1)

\* the date-only form YYYY-MM-DD of the Date Time String Format
IsDateShape(s) ==
  /\ Len(s) = 10
  /\ s[5] = "-" /\ s[8] = "-"
  /\ \A i \in {1, 2, 3, 4, 6, 7, 9, 10} : IsDigit(s[i])

\* the two builds of Date.parse the code runs on (Node.js / Chrome: v8,
\* Firefox: spidermonkey).  Both refuse a month outside 01..12 and a day
\* outside 01..31; v8 takes any day 01..31 and lets MakeDay run on into the
\* next month, spidermonkey refuses a day the month does not have.
Engines == {"v8", "spidermonkey"}

\* Date.parse(s) of a string; a date-only string is UTC midnight.  Strings of
\* another shape go to implementation-specific fallbacks: the model holds only
\* such strings without any digit, which every build refuses.
DateParse(s, eng) ==
  IF ~IsDateShape(s) THEN TimeNaN
  ELSE LET y == DigitsVal(SubSeq(s, 1, 4))
           m == DigitsVal(SubSeq(s, 6, 7))
           d == DigitsVal(SubSeq(s, 9, 10))
           dayOk == IF eng = "v8" THEN d \in 1..31 ELSE d \in 1..DaysInMonth(y, m)
       IN  IF m \in 1..12 /\ dayOk
           THEN Time(MakeDay(y, m, d) * TicksPerDay)
           ELSE TimeNaN

\* new Date(v)
NewDate(v, eng) ==
  CASE v.t = "string"    -> DateParse(v.s, eng)
    [] v.t = "null"      -> Time(0)
    [] v.t = "boolean"   -> Time(0)
    [] v.t = "number"    -> Time(((v.x2 \div 2) * TicksPerDay) \div 86400000)
    [] OTHER             -> TimeNaN

\* a < b, a > b, a <= b on two Date objects: false when either is invalid
DateLt(a, b) == ~a.nan /\ ~b.nan /\ a.tv < b.tv
DateLe(a, b) == ~a.nan /\ ~b.nan /\ a.tv <= b.tv

(***************************************************************************)
(* Primitive format checkers.  RegExp.test(v) matches against ToStr(v). *)
(***************************************************************************)
NotSpaceAt(c) == ~IsSpace(c) /\ c # "@"

\* /^[^\s@]+@[^\s@]+\.[^\s@]+$/
EmailRegexTest(s) ==
  \E i \in 2..Len(s) : \E j \in (i + 2)..(Len(s) - 1) :
    /\ s[i] = "@" /\ s[j] = "."
    /\ \A k \in 1..Len(s) : k \notin {i, j} => NotSpaceAt(s[k])

isValidEmail(email) == EmailRegexTest(ToStr(email))

\* /^\+?1?\d{10,14}$/
PhoneRegexTest(s) ==
  \E p \in {0, 1} : \E o \in {0, 1} :
    /\ Len(s) - p - o \in 10..14
    /\ p = 1 => s[1] = "+"
    /\ o = 1 => s[p + 1] = "1"
    /\ \A k \in (p + o + 1)..Len(s) : IsDigit(s[k])

isValidPhoneNumber(phoneNumber) == PhoneRegexTest(ToStr(phoneNumber))

\* /^\d{4}-\d{2}-\d{2}$/
DateRegexTest(s) == IsDateShape(s)

isValidDate(date, eng) ==
  IF ~DateRegexTest(ToStr(date)) THEN FALSE
  ELSE ~NewDate(date, eng).nan

\* /^\d{5}(-\d{4})?$/
ZipRegexTest(s) ==
  \/ Len(s) = 5 /\ AllDigits(s)
  \/ Len(s) = 10 /\ s[6] = "-" /\ AllDigits(SubSeq(s, 1, 5)) /\ AllDigits(SubSeq(s, 7, 10))

isValidZipCode(zipCode) == ZipRegexTest(ToStr(zipCode))

validStates ==
  <<
       <<"A","L">>, <<"A","K">>, <<"A","Z">>, <<"A","R">>, <<"C","A">>, <<"C","O">>, <<"C","T">>,
       <<"D","E">>, <<"F","L">>, <<"G","A">>, <<"H","I">>, <<"I","D">>, <<"I","L">>, <<"I","N">>,
       <<"I","A">>, <<"K","S">>, <<"K","Y">>, <<"L","A">>, <<"M","E">>, <<"M","D">>, <<"M","A">>,
       <<"M","I">>, <<"M","N">>, <<"M","S">>, <<"M","O">>, <<"M","T">>, <<"N","E">>, <<"N","V">>,
       <<"N","H">>, <<"N","J">>, <<"N","M">>, <<"N","Y">>, <<"N","C">>, <<"N","D">>, <<"O","H">>,
       <<"O","K">>, <<"O","R">>, <<"P","A">>, <<"R","I">>, <<"S","C">>, <<"S","D">>, <<"T","N">>,
       <<"T","X">>, <<"U","T">>, <<"V","T">>, <<"V","A">>, <<"W","A">>, <<"W","V">>, <<"W","I">>,
       <<"W","Y">>, <<"D","C">>, <<"P","R">>, <<"V","I">>, <<"G","U">>, <<"A","S">>, <<"M","P">>
  >>

\* the outcome of a call: a returned value, or a thrown TypeError
Returned(v) == [thrown |-> FALSE, value |-> v]
Thrown      == [thrown |-> TRUE, value |-> Undefined]

\* the slip of leaving out toUpperCase: only upper-case codes are found
isValidStateCodeCaseSensitive(state) ==
  CASE state.t \in {"undefined", "null"} -> Returned(Bool(FALSE))
    [] state.t = "string" ->
         Returned(Bool(\E i \in 1..Len(validStates) : validStates[i] = state.s))
    [] OTHER -> Thrown

\* validStates.includes(state?.toUpperCase()): ?. stops only at undefined and
\* null; of any other value that is no string, toUpperCase is undefined and
\* the call of it throws
isValidStateCode(state) ==
  CASE state.t \in {"undefined", "null"} -> Returned(Bool(FALSE))
    [] state.t = "string" ->
         Returned(Bool(\E i \in 1..Len(validStates) : validStates[i] = ToUpperCase(state.s)))
    [] OTHER -> Thrown

\* /^\d{6}$/
isValidRxBIN(rxBIN) ==
  LET s == ToStr(rxBIN) IN Len(s) = 6 /\ AllDigits(s)

\* the slip of normalising the case before the look-up
isValidPlanTypeIgnoringCase(planType) ==
  planType.t = "string" /\ Includes(InsurancePlanType, Str(ToUpperCase(planType.s)))

isValidPlanType(planType) == Includes(InsurancePlanType, planType)

\* /^\d{5}-\d{4}-\d{2}$/
isValidNDC(ndc) ==
  LET s == ToStr(ndc)
  IN  /\ Len(s) = 13 /\ s[6] = "-" /\ s[11] = "-"
      /\ AllDigits(SubSeq(s, 1, 5)) /\ AllDigits(SubSeq(s, 7, 10))
      /\ AllDigits(SubSeq(s, 12, 13))

\* /^\d{10}$/
isValidNPI(npi) ==
  LET s == ToStr(npi) IN Len(s) = 10 /\ AllDigits(s)

isValidPrescriptionStatus(status) == Includes(PrescriptionStatus, status)
isValidMedicationForm(form) == Includes(MedicationForm, form)

(***************************************************************************)
(* Relational comparison of two values, as `a > b` and `a < 0` compute it. *)
(***************************************************************************)
\* the characters of the model in code-unit order
CodeOrder ==
  <<"\t", "\n", " ", "+", "-", ".">> \o Digits \o <<"@">> \o Upper
    \o <<"[", "]", "_">> \o Lower
CharCode(c) == CHOOSE i \in 1..Len(CodeOrder) : CodeOrder[i] = c

\* s < t for two strings: by code units, a proper prefix first
RECURSIVE StrLt(_, _)
StrLt(s, t) ==
  CASE Len(t) = 0 -> FALSE
    [] Len(s) = 0 -> TRUE
    [] s[1] # t[1] -> CharCode(s[1]) < CharCode(t[1])
    [] OTHER -> StrLt(Tail(s), Tail(t))

NumNaN   == [nan |-> TRUE, x2 |-> 0]
NumOf(k) == [nan |-> FALSE, x2 |-> k]

\* StringToNumber: white space is stripped, the empty string is 0, a run of
\* decimal digits is its value.  The model holds no string with a sign, a
\* point, an exponent or a radix prefix; anything else is NaN.
StringToNumber(s) ==
  LET tr == Trim(s)
  IN  IF Len(tr) = 0 THEN NumOf(0)
      ELSE IF AllDigits(tr) THEN NumOf(2 * DigitsVal(tr))
      ELSE NumNaN

\* ToNumber(v); an object goes through "[object Object]"
ToNumber(v) ==
  CASE v.t = "number"  -> NumOf(v.x2)
    [] v.t = "null"    -> NumOf(0)
    [] v.t = "boolean" -> NumOf(IF v.b THEN 2 ELSE 0)
    [] v.t = "string"  -> StringToNumber(v.s)
    [] OTHER           -> NumNaN

\* a < b
JSLt(a, b) ==
  IF a.t \in {"string", "object"} /\ b.t \in {"string", "object"}
  THEN StrLt(ToStr(a), ToStr(b))
  ELSE LET x == ToNumber(a)
           y == ToNumber(b)
       IN  ~x.nan /\ ~y.nan /\ x.x2 < y.x2
\* a > b
JSGt(a, b) == JSLt(b, a)

(***************************************************************************)
(* The errors array of one validation call, and the exception that ends    *)
(* the call when a method is called on a value that does not have it.      *)
(***************************************************************************)
\* const errors = []
NewErrors == [thrown |-> FALSE, errors |-> <<>>]
\* errors.push(msg)
Push(acc, msg) == [acc EXCEPT !.errors = Append(@, msg)]
Throw(acc)     == [acc EXCEPT !.thrown = TRUE]
\* return { isValid: errors.length === 0, errors }
Result(acc) ==
  IF acc.thrown THEN Thrown
  ELSE Returned([isValid |-> Len(acc.errors) = 0, errors |-> acc.errors])

\* if (!v || v.trim().length === 0) errors.push(msg)
\* v.trim is undefined on a truthy value that is no string: the call throws
RequireText(acc, v, msg) ==
  CASE acc.thrown -> acc
    [] ~Truthy(v) -> Push(acc, msg)
    [] v.t # "string" -> Throw(acc)
    [] Len(Trim(v.s)) = 0 -> Push(acc, msg)
    [] OTHER -> acc

\* if (!v) push(required) else if (!ok) push(format)
RequireFormat(acc, v, ok, required, format) ==
  CASE acc.thrown -> acc
    [] ~Truthy(v) -> Push(acc, required)
    [] ~ok -> Push(acc, format)
    [] OTHER -> acc

\* if (v && !ok) push(format)
OptionalFormat(acc, v, ok, format) ==
  IF ~acc.thrown /\ Truthy(v) /\ ~ok THEN Push(acc, format) ELSE acc

(***************************************************************************)
(* validateUser (userValidator.js)                                         *)
(***************************************************************************)
NameMax == 100

\* First name / last name: required after trim, at most 100 characters
NameCheck(acc, v, required, tooLong) ==
  CASE acc.thrown -> acc
    [] ~Truthy(v) -> Push(acc, required)
    [] v.t # "string" -> Throw(acc)
    [] Len(Trim(v.s)) = 0 -> Push(acc, required)
    [] Len(v.s) > NameMax -> Push(acc, tooLong)
    [] OTHER -> acc

\* State: required, then isValidStateCode, which may throw
StateCheck(acc, v) ==
  CASE acc.thrown -> acc
    [] ~Truthy(v) -> Push(acc, "State is required")
    [] isValidStateCode(v).thrown -> Throw(acc)
    [] ~isValidStateCode(v).value.b ->
         Push(acc, "Invalid state code (must be 2-letter code like CA, NY)")
    [] OTHER -> acc

AddressCheck(acc, address) ==
  IF acc.thrown THEN acc
  ELSE IF ~Truthy(address) THEN Push(acc, "Address is required")
  ELSE LET a1 == RequireText(acc, Get(address, "street"), "Street address is required")
           a2 == RequireText(a1, Get(address, "city"), "City is required")
           a3 == StateCheck(a2, Get(address, "state"))
       IN  RequireFormat(a3, Get(address, "zipCode"),
                         isValidZipCode(Get(address, "zipCode")),
                         "ZIP code is required", "Invalid ZIP code format")

validateUser(user, eng) ==
  LET e1 == RequireFormat(NewErrors, Get(user, "email"), isValidEmail(Get(user, "email")),
                          "Email is required", "Invalid email format")
      e2 == NameCheck(e1, Get(user, "firstName"), "First name is required",
                      "First name must be 100 characters or less")
      e3 == NameCheck(e2, Get(user, "lastName"), "Last name is required",
                      "Last name must be 100 characters or less")
      e4 == RequireFormat(e3, Get(user, "dateOfBirth"),
                          isValidDate(Get(user, "dateOfBirth"), eng),
                          "Date of birth is required",
                          "Date of birth must be in YYYY-MM-DD format")
      e5 == RequireFormat(e4, Get(user, "phoneNumber"),
                          isValidPhoneNumber(Get(user, "phoneNumber")),
                          "Phone number is required", "Invalid phone number format")
      e6 == AddressCheck(e5, Get(user, "address"))
  IN  Result(e6)

(***************************************************************************)
(* validateInsurance, isInsuranceActive (insuranceValidator.js)            *)
(***************************************************************************)
\* if (!insurance.userId) push
RequirePresent(acc, v, msg) ==
  IF ~acc.thrown /\ ~Truthy(v) THEN Push(acc, msg) ELSE acc

\* if (v !== undefined) { if (typeof v !== 'number' || v < 0) push }
AmountCheck(acc, v, msg) ==
  IF /\ ~acc.thrown
     /\ v.t # "undefined"
     /\ (TypeOf(v) # "number" \/ JSLt(v, Num(0)))
  THEN Push(acc, msg)
  ELSE acc

\* if (effectiveDate && terminationDate) { if (termination <= effective) push }
DateOrderCheck(acc, eff, term, eng) ==
  IF /\ ~acc.thrown
     /\ Truthy(eff) /\ Truthy(term)
     /\ DateLe(NewDate(term, eng), NewDate(eff, eng))
  THEN Push(acc, "Termination date must be after effective date")
  ELSE acc

\* if (a > b) push
ExceedCheck(acc, a, b, msg) ==
  IF ~acc.thrown /\ JSGt(a, b) THEN Push(acc, msg) ELSE acc

InvalidPlanTypeMsg == "Invalid plan type. Must be one of: HMO, PPO, EPO, POS, HDHP"

validateInsurance(insurance, eng) ==
  LET e1  == RequirePresent(NewErrors, Get(insurance, "userId"), "User ID is required")
      e2  == RequireText(e1, Get(insurance, "insuranceCompany"),
                         "Insurance company name is required")
      e3  == RequireText(e2, Get(insurance, "policyNumber"), "Policy number is required")
      e4  == RequireFormat(e3, Get(insurance, "planType"),
                           isValidPlanType(Get(insurance, "planType")),
                           "Plan type is required", InvalidPlanTypeMsg)
      e5  == RequireText(e4, Get(insurance, "planName"), "Plan name is required")
      e6  == RequireFormat(e5, Get(insurance, "rxBIN"), isValidRxBIN(Get(insurance, "rxBIN")),
                           "RxBIN is required", "RxBIN must be exactly 6 digits")
      e7  == AmountCheck(e6, Get(insurance, "deductible"),
                         "Deductible must be a non-negative number (in cents)")
      e8  == AmountCheck(e7, Get(insurance, "deductibleMet"),
                         "Deductible met must be a non-negative number (in cents)")
      e9  == AmountCheck(e8, Get(insurance, "outOfPocketMax"),
                         "Out of pocket max must be a non-negative number (in cents)")
      e10 == AmountCheck(e9, Get(insurance, "outOfPocketMet"),
                         "Out of pocket met must be a non-negative number (in cents)")
      e11 == RequireFormat(e10, Get(insurance, "effectiveDate"),
                           isValidDate(Get(insurance, "effectiveDate"), eng),
                           "Effective date is required",
                           "Effective date must be in YYYY-MM-DD format")
      e12 == OptionalFormat(e11, Get(insurance, "terminationDate"),
                            isValidDate(Get(insurance, "terminationDate"), eng),
                            "Termination date must be in YYYY-MM-DD format")
      e13 == DateOrderCheck(e12, Get(insurance, "effectiveDate"),
                            Get(insurance, "terminationDate"), eng)
      e14 == ExceedCheck(e13, Get(insurance, "deductibleMet"), Get(insurance, "deductible"),
                         "Deductible met cannot exceed total deductible")
      e15 == ExceedCheck(e14, Get(insurance, "outOfPocketMet"),
                         Get(insurance, "outOfPocketMax"),
                         "Out of pocket met cannot exceed out of pocket max")
  IN  Result(e15)

\* the slip of comparing calendar dates: now cut back to its UTC midnight
isInsuranceActiveByCalendarDate(insurance, now, eng) ==
  LET today           == Time((now \div TicksPerDay) * TicksPerDay)
      effectiveDate   == NewDate(Get(insurance, "effectiveDate"), eng)
      terminationDate == NewDate(Get(insurance, "terminationDate"), eng)
      isActive        == Get(insurance, "isActive")
  IN  IF DateLt(today, effectiveDate) THEN FALSE
      ELSE IF Truthy(Get(insurance, "terminationDate")) /\ DateLt(terminationDate, today)
      THEN FALSE
      ELSE ~(isActive.t = "boolean" /\ isActive.b = FALSE)

\* the slip of leaving the flag out: the dates alone decide
isInsuranceActiveIgnoringFlag(insurance, now, eng) ==
  LET effectiveDate   == NewDate(Get(insurance, "effectiveDate"), eng)
      terminationDate == NewDate(Get(insurance, "terminationDate"), eng)
  IN  IF DateLt(Time(now), effectiveDate) THEN FALSE
      ELSE IF Truthy(Get(insurance, "terminationDate")) /\ DateLt(terminationDate, Time(now))
      THEN FALSE
      ELSE TRUE

\* now is the time value new Date() reads from the clock
isInsuranceActive(insurance, now, eng) ==
  LET effectiveDate   == NewDate(Get(insurance, "effectiveDate"), eng)
      terminationDate == NewDate(Get(insurance, "terminationDate"), eng)
      isActive        == Get(insurance, "isActive")
  IN  IF DateLt(Time(now), effectiveDate) THEN FALSE
      ELSE IF Truthy(Get(insurance, "terminationDate")) /\ DateLt(terminationDate, Time(now))
      THEN FALSE
      ELSE ~(isActive.t = "boolean" /\ isActive.b = FALSE)

(***************************************************************************)
(* validatePrescription (prescriptionValidator.js)                         *)
(***************************************************************************)
\* if (v === undefined || v === null) push(required)
\* else if (typeof v !== 'number' || v < floor) push(range)
RequireNumber(acc, v, floor, required, range) ==
  CASE acc.thrown -> acc
    [] v.t \in {"undefined", "null"} -> Push(acc, required)
    [] TypeOf(v) # "number" \/ JSLt(v, Num(floor)) -> Push(acc, range)
    [] OTHER -> acc

\* if (remaining !== undefined) { range check; if (remaining > allowed) push }
RefillsRemainingCheck(acc, remaining, allowed) ==
  IF acc.thrown \/ remaining.t = "undefined" THEN acc
  ELSE LET r1 == IF TypeOf(remaining) # "number" \/ JSLt(remaining, Num(0))
                 THEN Push(acc, "Refills remaining must be a non-negative number")
                 ELSE acc
       IN  IF JSGt(remaining, allowed)
           THEN Push(r1, "Refills remaining cannot exceed refills allowed")
           ELSE r1

InvalidFormMsg ==
  "Invalid medication form. Must be one of: TABLET, CAPSULE, LIQUID, INJECTION, CREAM, INHALER, PATCH, OTHER"
InvalidStatusMsg ==
  "Invalid prescription status. Must be one of: PENDING, SUBMITTED, APPROVED, DENIED, PRIOR_AUTH_REQUIRED, FILLED, PICKED_UP, CANCELLED"
StrengthMsg == "Medication strength is required (e.g., \"500mg\", \"10mg/ml\")"

validatePrescription(prescription, eng) ==
  LET e1  == RequirePresent(NewErrors, Get(prescription, "userId"), "User ID is required")
      e2  == RequireText(e1, Get(prescription, "medicationName"),
                         "Medication name is required")
      e3  == RequireFormat(e2, Get(prescription, "medicationForm"),
                           isValidMedicationForm(Get(prescription, "medicationForm")),
                           "Medication form is required", InvalidFormMsg)
      e4  == RequireText(e3, Get(prescription, "strength"), StrengthMsg)
      e5  == OptionalFormat(e4, Get(prescription, "ndc"), isValidNDC(Get(prescription, "ndc")),
                            "NDC must be in format: 12345-1234-12")
      e6  == RequireText(e5, Get(prescription, "dosageInstructions"),
                         "Dosage instructions are required")
      e7  == RequireNumber(e6, Get(prescription, "quantity"), 1,
                           "Quantity is required", "Quantity must be a positive number")
      e8  == RequireNumber(e7, Get(prescription, "daysSupply"), 1,
                           "Days supply is required", "Days supply must be a positive number")
      e9  == RequireNumber(e8, Get(prescription, "refillsAllowed"), 0,
                           "Refills allowed is required",
                           "Refills allowed must be a non-negative number")
      e10 == RefillsRemainingCheck(e9, Get(prescription, "refillsRemaining"),
                                   Get(prescription, "refillsAllowed"))
      e11 == RequireText(e10, Get(prescription, "prescriberName"),
                         "Prescriber name is required")
      e12 == RequireFormat(e11, Get(prescription, "prescriberNPI"),
                           isValidNPI(Get(prescription, "prescriberNPI")),
                           "Prescriber NPI is required",
                           "Prescriber NPI must be exactly 10 digits")
      e13 == RequireFormat(e12, Get(prescription, "prescribedDate"),
                           isValidDate(Get(prescription, "prescribedDate"), eng),
                           "Prescribed date is required",
                           "Prescribed date must be in YYYY-MM-DD format")
      e14 == OptionalFormat(e13, Get(prescription, "status"),
                            isValidPrescriptionStatus(Get(prescription, "status")),
                            InvalidStatusMsg)
      e15 == OptionalFormat(e14, Get(prescription, "pharmacyNPI"),
                            isValidNPI(Get(prescription, "pharmacyNPI")),
                            "Pharmacy NPI must be exactly 10 digits")
  IN  Result(e15)

(***************************************************************************)
(* The records and values the caller passes.                               *)
(***************************************************************************)
\* a text field: absent, empty, white space only, a text, and values that are
\* no strings
TextVals == {Undefined, Str(<<>>), Str(<<" "," ">>), Str(<<"J","o">>), Num(123)}
LongName(n) == Str([i \in 1..n |-> "x"])
NameVals == TextVals \cup {LongName(NameMax), LongName(NameMax + 1)}
DateVals == {Undefined, Null, Str(<<>>), Str(<<" "," ">>), Str(<<"a","b","c">>), Str(<<"1","9","9","0","-","0","5","-","0","1">>), Str(<<"2","0","2","3","-","0","2","-","3","1">>)}
IdVals == {Undefined, Str(<<>>), Str(<<" "," ">>), Str(<<"u","1">>), Num(0), Num(7)}
NpiVals == {Undefined, Str(<<>>), Str(<<" "," ">>), Str(<<"1","2","3","4","5","6","7","8","9","0">>), Str(<<"1","2","3","4","5">>), Num(12345)}
AmountVals == {Undefined, Null, NaN, Num(-1), Num(0), Half(3), Num(500), Num(600),
               Str(<<"6","0","0">>)}
CountVals == {Undefined, Null, NaN, Num(-1), Num(0), Half(1), Half(3), Num(2), Num(5),
              Str(<<"5">>)}
Members(list) == {Str(list[i]) : i \in 1..Len(list)}

ValidAddress ==
  Obj([street |-> Str(<<"1"," ","M","a","i","n"," ","S","t">>), city |-> Str(<<"S","p","r","i","n","g","f","i","e","l","d">>),
       state |-> Str(<<"I","L">>), zipCode |-> Str(<<"6","2","7","0","1">>)])
ValidUser ==
  Obj([email |-> Str(<<"a","@","b",".","c","o","m">>), firstName |-> Str(<<"J","o">>), lastName |-> Str(<<"L","e","e">>),
       dateOfBirth |-> Str(<<"1","9","9","0","-","0","5","-","0","1">>), phoneNumber |-> Str(<<"1","2","0","2","5","5","5","1","2","3","4">>),
       address |-> ValidAddress])
ValidInsurance ==
  Obj([userId |-> Str(<<"u","1">>), insuranceCompany |-> Str(<<"A","c","m","e">>), policyNumber |-> Str(<<"P","1">>),
       planType |-> Str(<<"H","M","O">>), planName |-> Str(<<"G","o","l","d">>), rxBIN |-> Str(<<"1","2","3","4","5","6">>),
       deductible |-> Num(500), deductibleMet |-> Num(100),
       outOfPocketMax |-> Num(600), outOfPocketMet |-> Num(0),
       effectiveDate |-> Str(<<"2","0","2","4","-","0","1","-","0","1">>), terminationDate |-> Undefined,
       isActive |-> Undefined])
ValidPrescription ==
  Obj([userId |-> Str(<<"u","1">>), medicationName |-> Str(<<"A","m","o","x">>), medicationForm |-> Str(<<"T","A","B","L","E","T">>),
       strength |-> Str(<<"5","0","0","m","g">>), ndc |-> Undefined, dosageInstructions |-> Str(<<"1"," ","d","a","i","l","y">>),
       quantity |-> Num(30), daysSupply |-> Num(30), refillsAllowed |-> Num(2),
       refillsRemaining |-> Undefined, prescriberName |-> Str(<<"D","r"," ","W","h","o">>),
       prescriberNPI |-> Str(<<"1","2","3","4","5","6","7","8","9","0">>), prescribedDate |-> Str(<<"2","0","2","4","-","0","1","-","0","1">>),
       status |-> Undefined, pharmacyNPI |-> Undefined])
\* records that break every cross-field rule of their kind and no other
OverdrawnInsurance ==
  Obj([ValidInsurance.f EXCEPT !["deductibleMet"] = Num(600),
                               !["outOfPocketMax"] = Num(500),
                               !["outOfPocketMet"] = Num(600),
                               !["terminationDate"] = Str(<<"2","0","2","3","-","0","1","-","0","1">>)])
OverdrawnPrescription ==
  Obj([ValidPrescription.f EXCEPT !["refillsRemaining"] = Num(5)])
\* the record {} of the record's shape
EmptyOf(rec) == Obj([k \in DOMAIN rec.f |-> Undefined])

\* the places of a record the caller assigns, in the order it fills them: a
\* field, or a field of the nested address
Paths(knd) ==
  CASE knd = "user" ->
         <<<<"email">>, <<"firstName">>, <<"lastName">>, <<"dateOfBirth">>,
           <<"phoneNumber">>, <<"address">>, <<"address", "street">>,
           <<"address", "city">>, <<"address", "state">>, <<"address", "zipCode">> >>
    [] knd = "insurance" ->
         <<<<"userId">>, <<"insuranceCompany">>, <<"policyNumber">>, <<"planType">>,
           <<"planName">>, <<"rxBIN">>, <<"deductible">>, <<"deductibleMet">>,
           <<"outOfPocketMax">>, <<"outOfPocketMet">>, <<"effectiveDate">>,
           <<"terminationDate">> >>
    [] knd = "prescription" ->
         <<<<"userId">>, <<"medicationName">>, <<"medicationForm">>, <<"strength">>,
           <<"ndc">>, <<"dosageInstructions">>, <<"quantity">>, <<"daysSupply">>,
           <<"refillsAllowed">>, <<"refillsRemaining">>, <<"prescriberName">>,
           <<"prescriberNPI">>, <<"prescribedDate">>, <<"status">>, <<"pharmacyNPI">> >>
    [] OTHER -> <<>>
Path(knd, i) == Paths(knd)[i]
\* the field a place assigns
FieldOf(knd, i) == Path(knd, i)[Len(Path(knd, i))]

\* the values the caller writes into field k of a record of the kind
FieldVals(knd, k) ==
  CASE k \in {"firstName", "lastName"} -> NameVals
    [] k \in {"insuranceCompany", "policyNumber", "planName", "medicationName",
              "strength", "dosageInstructions", "prescriberName", "street", "city"}
         -> TextVals
    [] k = "email" -> {Undefined, Null, Str(<<>>), Str(<<" "," ">>), Str(<<"a","@","b",".","c","o","m">>), Str(<<"a","@","b">>), Str(<<"a"," ","b","@","c",".","d">>), Num(123)}
    [] k = "phoneNumber" -> {Undefined, Null, Str(<<>>), Str(<<" "," ">>), Str(<<"1","2","0","2","5","5","5","1","2","3","4">>),
                             Str(<<"+","1","2","0","2","5","5","5","1","2","3","4">>), Str(<<"1","2","3","4","5">>), Num(12345)}
    [] k \in {"dateOfBirth", "effectiveDate", "prescribedDate"} -> DateVals
    [] k = "terminationDate" -> DateVals \cup {Str(<<"2","0","2","3","-","0","1","-","0","1">>), Str(<<"2","0","2","4","-","0","1","-","0","1">>), Str(<<"2","0","2","5","-","0","1","-","0","1">>)}
    [] k = "address" -> {Undefined, Null, ValidAddress, EmptyOf(ValidAddress), Str(<<"J","o">>)}
    [] k = "state" -> {Undefined, Null, Str(<<>>), Str(<<" "," ">>), Str(<<"I","L">>), Str(<<"i","l">>), Str(<<"X","X">>), Str(<<"I","l","l","i","n","o","i","s">>),
                       Num(5), Bool(TRUE), EmptyObj}
    [] k = "zipCode" -> {Undefined, Null, Str(<<>>), Str(<<" "," ">>), Str(<<"6","2","7","0","1">>), Str(<<"6","2","7","0","1","-","1","2","3","4">>), Str(<<"6","2","7","0">>),
                         Num(62701)}
    [] k = "userId" -> IdVals
    [] k = "planType" -> Members(InsurancePlanType)
                           \cup {Undefined, Null, Str(<<>>), Str(<<" "," ">>), Str(<<"h","m","o">>), Str(<<"H","M","O"," ">>), Str(<<"X","Y","Z">>), Num(1)}
    [] k = "rxBIN" -> {Undefined, Null, Str(<<>>), Str(<<" "," ">>), Str(<<"1","2","3","4","5","6">>), Str(<<"1","2","3","4","5">>), Str(<<"1","2","3","4","5","a">>),
                       Num(123456)}
    [] k \in {"deductible", "deductibleMet", "outOfPocketMax", "outOfPocketMet"}
         -> AmountVals
    [] k = "isActive" -> {Undefined, Null, Bool(TRUE), Bool(FALSE)}
    [] k = "medicationForm" -> Members(MedicationForm)
                                 \cup {Undefined, Null, Str(<<>>), Str(<<" "," ">>), Str(<<"t","a","b","l","e","t">>), Str(<<"X","Y","Z">>), Num(1)}
    [] k = "ndc" -> {Undefined, Null, Str(<<>>), Str(<<" "," ">>), Str(<<"1","2","3","4","5","-","1","2","3","4","-","1","2">>), Str(<<"1","2","3","4","-","1","2","3","4","-","1","2">>)}
    [] k \in {"quantity", "daysSupply", "refillsAllowed", "refillsRemaining"} -> CountVals
    [] k \in {"prescriberNPI", "pharmacyNPI"} -> NpiVals
    [] k = "status" -> Members(PrescriptionStatus)
                         \cup {Undefined, Null, Str(<<>>), Str(<<" "," ">>), Str(<<"p","e","n","d","i","n","g">>), Str(<<"X","Y","Z">>), Num(1)}

\* YYYY-MM-DD of three numbers, zero-padded
Pad2(n) == <<Digits[((n \div 10) % 10) + 1], Digits[(n % 10) + 1]>>
FormatDate(y, m, d) ==
  Str(Pad2(y \div 100) \o Pad2(y % 100) \o <<"-">> \o Pad2(m) \o <<"-">> \o Pad2(d))

\* arguments of isValidDate
DateYears == {1900, 2000, 2023, 2024}
DateInputs ==
  {FormatDate(y, m, d) : y \in DateYears, m \in 0..13, d \in 0..32}
    \cup DateVals
    \cup {Str(<<"2","0","2","3","-","2","-","0","3">>), Str(<<"2","3","-","0","2","-","0","3">>), Str(<<"2","0","2","3","/","0","2","/","0","3">>), Str(<<"2","0","2","3","-","0","2","-","0","3"," ">>), Str(<<" ","2","0","2","3","-","0","2","-","0","3">>),
          Str(<<"2","0","2","3","-","0","2","-","0","3","1">>), Str(<<"2","0","2","3","-","0","2","-","0","a">>), Num(20230203), Bool(TRUE), EmptyObj, NaN}

\* arguments of isValidStateCode
StateInputs ==
  {Str(validStates[i]) : i \in 1..Len(validStates)}
    \cup {Str(<<validStates[i][1], Lower[CHOOSE j \in 1..26 : Upper[j] = validStates[i][2]]>>)
            : i \in 1..Len(validStates)}
    \cup FieldVals("user", "state")
    \cup {Str(<<"Z","Z">>), Str(<<"I">>), Str(<<"I","L","L">>), Str(<<" ","I","L">>), Str(<<"I"," ","L">>), Str(<<"A","1">>), Num(0), Bool(FALSE), NaN}

\* records given to isInsuranceActive: an insurance record and its dates
CoverageInputs ==
  {Obj([ValidInsurance.f EXCEPT !["effectiveDate"] = e, !["terminationDate"] = t,
                                 !["isActive"] = a])
     : e \in {Undefined, Str(<<"a","b","c">>), Str(<<"2","0","2","4","-","0","1","-","1","0">>), Str(<<"2","0","2","4","-","0","2","-","1","0">>)},
       t \in {Undefined, Null, Str(<<>>), Str(<<"a","b","c">>), Str(<<"2","0","2","4","-","0","2","-","1","0">>), Str(<<"2","0","2","4","-","0","3","-","1","0">>)},
       a \in FieldVals("insurance", "isActive")}

\* the instants the clock shows at a call: the ticks of some UTC days
ClockDays ==
  {MakeDay(2024, 1, 9), MakeDay(2024, 1, 10), MakeDay(2024, 2, 9), MakeDay(2024, 2, 10),
   MakeDay(2024, 2, 11), MakeDay(2024, 3, 10), MakeDay(2024, 3, 11)}
Clock == {d * TicksPerDay + k : d \in ClockDays, k \in 0..(TicksPerDay - 1)}

(***************************************************************************)
(* The state machine: a caller builds a record from a template, assigning  *)
(* some of its fields in order, and calls the exported function of its     *)
(* kind on it.                                                             *)
(***************************************************************************)
VARIABLES
  engine,   \* the build of Date.parse the process runs on
  kind,     \* what the caller holds: which function it is an argument of
  arg,      \* the argument, owned by the caller
  edits,    \* how many places of arg the caller has assigned
  cursor,   \* the last place it assigned
  last,     \* the latest call on arg as it stands, or NoCall
  prev      \* the call before it on the same unmodified arg at the same
            \* reading of the clock, or NoCall
vars == <<engine, kind, arg, edits, cursor, last, prev>>

NoCall == [fn |-> "none"]
Call(fn, a, now, out) == [fn |-> fn, arg |-> a, now |-> now, out |-> out]

RecordKinds == {"user", "insurance", "prescription"}
\* the templates the caller starts a record from
Templates(knd) ==
  CASE knd = "user" -> {ValidUser, EmptyOf(ValidUser)}
    [] knd = "insurance" -> {ValidInsurance, EmptyOf(ValidInsurance), OverdrawnInsurance}
    [] knd = "prescription" ->
         {ValidPrescription, EmptyOf(ValidPrescription), OverdrawnPrescription}

Init ==
  /\ engine \in Engines
  /\ kind \in RecordKinds \cup {"date", "state", "coverage"}
  /\ arg \in CASE kind \in RecordKinds -> Templates(kind)
               [] kind = "date" -> DateInputs
               [] kind = "state" -> StateInputs
               [] kind = "coverage" -> CoverageInputs
  /\ edits = 0
  /\ cursor = 0
  /\ last = NoCall
  /\ prev = NoCall

\* arg with the place p assigned v
Assign(a, p, v) ==
  IF Len(p) = 1 THEN Obj([a.f EXCEPT ![p[1]] = v])
  ELSE Obj([a.f EXCEPT ![p[1]] = Obj([a.f[p[1]].f EXCEPT ![p[2]] = v])])

\* the caller assigns the i-th place of arg; a field of the address only
\* when the address is an object
EditField(i, v) ==
  LET p == Path(kind, i)
  IN  /\ kind \in RecordKinds
      /\ edits < MaxEdits
      /\ i > cursor
      /\ Len(p) = 2 => arg.f[p[1]].t = "object"
      /\ v \in FieldVals(kind, FieldOf(kind, i))
      /\ arg' = Assign(arg, p, v)
      /\ edits' = edits + 1
      /\ cursor' = i
      /\ last' = NoCall
      /\ prev' = NoCall
      /\ UNCHANGED <<engine, kind>>

\* a call reads arg and the clock and assigns nothing the caller can see
Record(fn, now, out) ==
  /\ last' = Call(fn, arg, now, out)
  /\ prev' = IF last.fn = fn /\ last.now = now THEN last ELSE NoCall
  /\ UNCHANGED <<engine, kind, arg, edits, cursor>>

\* the slip of one errors array shared by all calls: a call appends to what
\* the call before left in it
CallValidateUserSharedErrors ==
  LET out == validateUser(arg, engine)
      all == IF last.fn = "validateUser" /\ ~last.out.thrown /\ ~out.thrown
             THEN last.out.value.errors \o out.value.errors
             ELSE <<>>
  IN  /\ kind = "user"
      /\ Record("validateUser", 0,
                IF Len(all) > 0 THEN Returned([isValid |-> FALSE, errors |-> all]) ELSE out)

CallValidateUser ==
  kind = "user" /\ Record("validateUser", 0, validateUser(arg, engine))

CallValidateInsurance ==
  kind = "insurance" /\ Record("validateInsurance", 0, validateInsurance(arg, engine))

CallValidatePrescription ==
  kind = "prescription"
    /\ Record("validatePrescription", 0, validatePrescription(arg, engine))

CallIsValidDate ==
  kind = "date" /\ Record("isValidDate", 0, Returned(Bool(isValidDate(arg, engine))))

CallIsValidStateCode ==
  kind = "state" /\ Record("isValidStateCode", 0, isValidStateCode(arg))

CallIsInsuranceActive(now) ==
  kind = "coverage"
    /\ Record("isInsuranceActive", now, Returned(Bool(isInsuranceActive(arg, now, engine))))

Next ==
  \/ \E i \in 1..Len(Paths(kind)) : \E v \in FieldVals(kind, FieldOf(kind, i)) :
       EditField(i, v)
  \/ CallValidateUser
  \/ CallValidateInsurance
  \/ CallValidatePrescription
  \/ CallIsValidDate
  \/ CallIsValidStateCode
  \/ \E now \in Clock : CallIsInsuranceActive(now)

Spec == Init /\ [][Next]_vars

(***************************************************************************)
(* Vocabulary of the properties.                                           *)
(***************************************************************************)
Validators == {"validateUser", "validateInsurance", "validatePrescription"}
Validated == last.fn \in Validators
Returns   == last.fn # "none" /\ ~last.out.thrown
Errors    == last.out.value.errors
Has(msg)  == \E i \in 1..Len(Errors) : Errors[i] = msg
Count(msg) == Cardinality({i \in 1..Len(Errors) : Errors[i] = msg})
\* the value at the i-th place of the argument of the latest call
At(i) ==
  LET p == Path(kind, i)
  IN  IF Len(p) = 1 THEN Get(last.arg, p[1]) ELSE Get(Get(last.arg, p[1]), p[2])
Field(k) == Get(last.arg, k)

\* a calendar date that exists, written YYYY-MM-DD
RealDate(v) ==
  /\ v.t = "string"
  /\ IsDateShape(v.s)
  /\ DigitsVal(SubSeq(v.s, 6, 7)) \in 1..12
  /\ DigitsVal(SubSeq(v.s, 9, 10))
       \in 1..DaysInMonth(DigitsVal(SubSeq(v.s, 1, 4)), DigitsVal(SubSeq(v.s, 6, 7)))
\* the UTC day of a real date
DayOf(v) ==
  MakeDay(DigitsVal(SubSeq(v.s, 1, 4)), DigitsVal(SubSeq(v.s, 6, 7)),
          DigitsVal(SubSeq(v.s, 9, 10)))

\* absent, or a string that is empty after trimming
Missing(v) ==
  v.t \in {"undefined", "null"} \/ (v.t = "string" /\ Len(Trim(v.s)) = 0)

(***************************************************************************)
(* C1  The three validators never throw: every call, whatever the record   *)
(*     holds in its fields, returns a result.                              *)
(*     Stated as the claim; the code throws a TypeError when a text field  *)
(*     holds a truthy value that is no string.                             *)
(***************************************************************************)
C1_NeverThrows == Validated => ~last.out.thrown

(***************************************************************************)
(* C2  When a required field is absent or a string empty after trimming,   *)
(*     the result is invalid, holds the field's presence message and no    *)
(*     format or range message of the same field.                          *)
(*     Stated for the calls that return (for those that throw see C1): the *)
(*     code reads a white-space-only email, plan type, RxBIN, NPI, date,   *)
(*     phone number or user id as present.                                 *)
(***************************************************************************)
\* the required places of each kind: presence message, format messages
RequiredRules(knd) ==
  CASE knd = "user" ->
    {<<1, "Email is required", {"Invalid email format"}>>,
     <<2, "First name is required", {"First name must be 100 characters or less"}>>,
     <<3, "Last name is required", {"Last name must be 100 characters or less"}>>,
     <<4, "Date of birth is required", {"Date of birth must be in YYYY-MM-DD format"}>>,
     <<5, "Phone number is required", {"Invalid phone number format"}>>,
     <<6, "Address is required", {}>>}
    [] knd = "insurance" ->
    {<<1, "User ID is required", {}>>,
     <<2, "Insurance company name is required", {}>>,
     <<3, "Policy number is required", {}>>,
     <<4, "Plan type is required", {InvalidPlanTypeMsg}>>,
     <<5, "Plan name is required", {}>>,
     <<6, "RxBIN is required", {"RxBIN must be exactly 6 digits"}>>,
     <<11, "Effective date is required", {"Effective date must be in YYYY-MM-DD format"}>>}
    [] knd = "prescription" ->
    {<<1, "User ID is required", {}>>,
     <<2, "Medication name is required", {}>>,
     <<3, "Medication form is required", {InvalidFormMsg}>>,
     <<4, StrengthMsg, {}>>,
     <<6, "Dosage instructions are required", {}>>,
     <<7, "Quantity is required", {"Quantity must be a positive number"}>>,
     <<8, "Days supply is required", {"Days supply must be a positive number"}>>,
     <<9, "Refills allowed is required", {"Refills allowed must be a non-negative number"}>>,
     <<11, "Prescriber name is required", {}>>,
     <<12, "Prescriber NPI is required", {"Prescriber NPI must be exactly 10 digits"}>>,
     <<13, "Prescribed date is required", {"Prescribed date must be in YYYY-MM-DD format"}>>}
    [] OTHER -> {}

C2_MissingRequiredField ==
  (Validated /\ Returns) =>
    \A r \in RequiredRules(kind) :
      Missing(At(r[1])) =>
        /\ ~last.out.value.isValid
        /\ Has(r[2])
        /\ \A m \in r[3] : ~Has(m)

(***************************************************************************)
(* C3  A record that satisfies every documented constraint of its kind is  *)
(*     accepted: isValid = true and errors is empty.                       *)
(***************************************************************************)
Absent(v)    == v.t = "undefined"
Text(v)      == v.t = "string" /\ Len(Trim(v.s)) > 0
Identifier(v) == Text(v) \/ (v.t = "number" /\ v.x2 > 0 /\ v.x2 % 2 = 0)
Integral(v)  == v.t = "number" /\ v.x2 % 2 = 0
AtLeast(v, n) == v.t = "number" /\ v.x2 >= 2 * n
Matches6(v)  == v.t = "string" /\ Len(v.s) = 6 /\ AllDigits(v.s)
Matches10(v) == v.t = "string" /\ Len(v.s) = 10 /\ AllDigits(v.s)
StateCode(v) ==
  v.t = "string" /\ \E i \in 1..Len(validStates) : validStates[i] = ToUpperCase(v.s)

WellFormedAddress(a) ==
  /\ a.t = "object"
  /\ Text(Get(a, "street")) /\ Text(Get(a, "city"))
  /\ StateCode(Get(a, "state"))
  /\ Get(a, "zipCode").t = "string" /\ ZipRegexTest(Get(a, "zipCode").s)

WellFormedUser(u) ==
  /\ Get(u, "email").t = "string" /\ EmailRegexTest(Get(u, "email").s)
  /\ Text(Get(u, "firstName")) /\ Len(Get(u, "firstName").s) <= 100
  /\ Text(Get(u, "lastName")) /\ Len(Get(u, "lastName").s) <= 100
  /\ RealDate(Get(u, "dateOfBirth"))
  /\ Get(u, "phoneNumber").t = "string" /\ PhoneRegexTest(Get(u, "phoneNumber").s)
  /\ WellFormedAddress(Get(u, "address"))

Amount(v) == Integral(v) /\ v.x2 >= 0
WellFormedInsurance(r) ==
  /\ Identifier(Get(r, "userId"))
  /\ Text(Get(r, "insuranceCompany")) /\ Text(Get(r, "policyNumber"))
  /\ Text(Get(r, "planName"))
  /\ Get(r, "planType") \in Members(InsurancePlanType)
  /\ Matches6(Get(r, "rxBIN"))
  /\ \A k \in {"deductible", "deductibleMet", "outOfPocketMax", "outOfPocketMet"} :
       Absent(Get(r, k)) \/ Amount(Get(r, k))
  /\ RealDate(Get(r, "effectiveDate"))
  /\ \/ Absent(Get(r, "terminationDate"))
     \/ /\ RealDate(Get(r, "terminationDate"))
        /\ DayOf(Get(r, "terminationDate")) > DayOf(Get(r, "effectiveDate"))
  /\ (Amount(Get(r, "deductible")) /\ Amount(Get(r, "deductibleMet")))
       => Get(r, "deductibleMet").x2 <= Get(r, "deductible").x2
  /\ (Amount(Get(r, "outOfPocketMax")) /\ Amount(Get(r, "outOfPocketMet")))
       => Get(r, "outOfPocketMet").x2 <= Get(r, "outOfPocketMax").x2

WellFormedPrescription(r) ==
  /\ Identifier(Get(r, "userId"))
  /\ Text(Get(r, "medicationName")) /\ Text(Get(r, "strength"))
  /\ Text(Get(r, "dosageInstructions")) /\ Text(Get(r, "prescriberName"))
  /\ Get(r, "medicationForm") \in Members(MedicationForm)
  /\ Absent(Get(r, "ndc")) \/ (Get(r, "ndc").t = "string" /\ isValidNDC(Get(r, "ndc")))
  /\ AtLeast(Get(r, "quantity"), 1) /\ AtLeast(Get(r, "daysSupply"), 1)
  /\ AtLeast(Get(r, "refillsAllowed"), 0)
  /\ \/ Absent(Get(r, "refillsRemaining"))
     \/ /\ AtLeast(Get(r, "refillsRemaining"), 0)
        /\ Get(r, "refillsRemaining").x2 <= Get(r, "refillsAllowed").x2
  /\ Matches10(Get(r, "prescriberNPI"))
  /\ RealDate(Get(r, "prescribedDate"))
  /\ Absent(Get(r, "status")) \/ Get(r, "status") \in Members(PrescriptionStatus)
  /\ Absent(Get(r, "pharmacyNPI")) \/ Matches10(Get(r, "pharmacyNPI"))

WellFormed(knd, r) ==
  CASE knd = "user" -> WellFormedUser(r)
    [] knd = "insurance" -> WellFormedInsurance(r)
    [] knd = "prescription" -> WellFormedPrescription(r)
    [] OTHER -> FALSE

Accepted == [thrown |-> FALSE, value |-> [isValid |-> TRUE, errors |-> <<>>]]

IsNumber(v) == v.t = "number"
Exceeds(a, b) == IsNumber(a) /\ IsNumber(b) /\ a.x2 > b.x2
NotAfter(term, eff) == RealDate(term) /\ RealDate(eff) /\ DayOf(term) <= DayOf(eff)

C4_CrossFieldIndependent ==
  /\ last.fn = "validateInsurance" =>
       /\ Exceeds(Field("deductibleMet"), Field("deductible"))
            => (Returns /\ Has("Deductible met cannot exceed total deductible"))
       /\ Exceeds(Field("outOfPocketMet"), Field("outOfPocketMax"))
            => (Returns /\ Has("Out of pocket met cannot exceed out of pocket max"))
       /\ NotAfter(Field("terminationDate"), Field("effectiveDate"))
            => (Returns /\ Has("Termination date must be after effective date"))
  /\ last.fn = "validatePrescription" =>
       (Exceeds(Field("refillsRemaining"), Field("refillsAllowed"))
          => (Returns /\ Has("Refills remaining cannot exceed refills allowed")))

(***************************************************************************)
(* C5  Enumeration fidelity.  In a record that is otherwise well formed,   *)
(*     planType and medicationForm pass for every declared member and fail *)
(*     for every other string, the empty string and 'hmo' included.        *)
(*     status passes for every member and fails for every other string     *)
(*     but the empty one: status is optional, and the empty string is      *)
(*     read as no status given and passes.                                 *)
(***************************************************************************)
\* the argument of the latest call with field k put back to the template's
Otherwise(k, v) == Obj([last.arg.f EXCEPT ![k] = v])
IsString(v) == v.t = "string"
Passes == Returns /\ last.out.value.isValid

\* the claim as written: status fails for the empty string as well
C5_EnumerationFidelity_AsClaimed ==
  /\ (last.fn = "validateInsurance" /\ IsString(Field("planType"))
        /\ WellFormedInsurance(Otherwise("planType", Str(<<"H","M","O">>))))
       => (Passes <=> Field("planType") \in Members(InsurancePlanType))
  /\ (last.fn = "validatePrescription" /\ IsString(Field("medicationForm"))
        /\ WellFormedPrescription(Otherwise("medicationForm", Str(<<"T","A","B","L","E","T">>))))
       => (Passes <=> Field("medicationForm") \in Members(MedicationForm))
  /\ (last.fn = "validatePrescription" /\ IsString(Field("status"))
        /\ WellFormedPrescription(Otherwise("status", Undefined)))
       => (Passes <=> Field("status") \in Members(PrescriptionStatus))

C5_EnumerationFidelity ==
  /\ (last.fn = "validateInsurance" /\ IsString(Field("planType"))
        /\ WellFormedInsurance(Otherwise("planType", Str(<<"H","M","O">>))))
       => (Passes <=> Field("planType") \in Members(InsurancePlanType))
  /\ (last.fn = "validatePrescription" /\ IsString(Field("medicationForm"))
        /\ WellFormedPrescription(Otherwise("medicationForm", Str(<<"T","A","B","L","E","T">>))))
       => (Passes <=> Field("medicationForm") \in Members(MedicationForm))
  /\ (last.fn = "validatePrescription" /\ IsString(Field("status"))
        /\ WellFormedPrescription(Otherwise("status", Undefined)))
       => (Passes <=> (Field("status") \in Members(PrescriptionStatus)
                         \/ Field("status") = Str(<<>>)))

\* an empty status in an otherwise well-formed prescription is passed
C5_Witness ==
  /\ last.fn = "validatePrescription" /\ Field("status") = Str(<<>>)
  /\ WellFormedPrescription(Otherwise("status", Undefined))
  /\ Passes

(***************************************************************************)
(* C6  isValidDate returns true exactly for the strings YYYY-MM-DD that    *)
(*     name a calendar date that exists.                                   *)
(***************************************************************************)
C6_RealCalendarDate ==
  (last.fn = "isValidDate" /\ IsString(last.arg)) =>
    /\ Returns
    /\ last.out.value.b <=> RealDate(last.arg)

(***************************************************************************)
(* C7  isValidStateCode is total: true exactly for a string whose upper    *)
(*     case is one of the 56 abbreviations, false (not an exception) for   *)
(*     a missing value and for a value that is no string.                  *)
(***************************************************************************)
C7_StateCodeTotal ==
  last.fn = "isValidStateCode" =>
    /\ Returns
    /\ last.out.value.b <=> StateCode(last.arg)

(***************************************************************************)
(* C8  Termination on today's date.  For a record whose effective date is  *)
(*     an earlier day, whose isActive is not false and whose termination   *)
(*     date is the UTC date of now, isInsuranceActive compares instants,   *)
(*     not calendar dates: it returns true only at the instant of UTC      *)
(*     midnight that begins the termination date, and false at every later *)
(*     instant of that day.                                                *)
(***************************************************************************)
Today == last.now \div TicksPerDay
TerminatesToday ==
  /\ last.fn = "isInsuranceActive"
  /\ RealDate(Field("effectiveDate")) /\ DayOf(Field("effectiveDate")) < Today
  /\ RealDate(Field("terminationDate")) /\ DayOf(Field("terminationDate")) = Today
  /\ Field("isActive") # Bool(FALSE)

\* the claim as written: active at every time of the termination day
C8_SameDayActive_AsClaimed ==
  TerminatesToday => (Returns /\ last.out.value.b)

C8_SameDayActiveOnlyAtMidnight ==
  TerminatesToday =>
    /\ Returns
    /\ last.out.value.b <=> (last.now % TicksPerDay = 0)

\* a call later in the termination day, answered false
C8_Witness ==
  TerminatesToday /\ last.now % TicksPerDay > 0 /\ ~last.out.value.b

(***************************************************************************)
(* C9  Completeness for the insurance amounts: a deductible,               *)
(*     deductibleMet, outOfPocketMax or outOfPocketMet that is present     *)
(*     and is no non-negative integer gets exactly one message of its      *)
(*     rule, and a non-negative integer gets none.                         *)
(*     Stated for the calls that return (for those that throw see C1): the *)
(*     code passes 1.5 and NaN without a message.                          *)
(***************************************************************************)
AmountRules ==
  {<<"deductible", "Deductible must be a non-negative number (in cents)">>,
   <<"deductibleMet", "Deductible met must be a non-negative number (in cents)">>,
   <<"outOfPocketMax", "Out of pocket max must be a non-negative number (in cents)">>,
   <<"outOfPocketMet", "Out of pocket met must be a non-negative number (in cents)">>}

C9_AmountCompleteness ==
  (last.fn = "validateInsurance" /\ Returns) =>
    \A r \in AmountRules :
      ~Absent(Field(r[1])) =>
        Count(r[2]) = IF Amount(Field(r[1])) THEN 0 ELSE 1

CrossFieldMsgs ==
  {"Termination date must be after effective date",
   "Deductible met cannot exceed total deductible",
   "Out of pocket met cannot exceed out of pocket max",
   "Refills remaining cannot exceed refills allowed"}

C11_CrossFieldLast ==
  (Validated /\ Returns) =>
    \A i \in 1..Len(Errors) : \A j \in 1..Len(Errors) :
      (i < j /\ Errors[i] \in CrossFieldMsgs) => Errors[j] \in CrossFieldMsgs

(***************************************************************************)
(* C12 validateUser reports at most one error per field, in the fixed      *)
(*     order email, firstName, lastName, dateOfBirth, phoneNumber,         *)
(*     address (street, city, state, zipCode).  With the address absent    *)
(*     the address contributes exactly 'Address is required' and nothing   *)
(*     for its parts, so the record {} yields exactly the six presence     *)
(*     errors in order; with the address present, each of street, city,    *)
(*     state and zipCode that is missing or malformed contributes one      *)
(*     error of its own.                                                   *)
(*     Stated as the claim; a street or city that is no string, and a      *)
(*     state that is no string, end the call in an exception (C1, C7), so  *)
(*     no error is reported for it.                                        *)
(***************************************************************************)
\* the messages of each field, in the order of the checks
UserFieldMsgs ==
  << {"Email is required", "Invalid email format"},
     {"First name is required", "First name must be 100 characters or less"},
     {"Last name is required", "Last name must be 100 characters or less"},
     {"Date of birth is required", "Date of birth must be in YYYY-MM-DD format"},
     {"Phone number is required", "Invalid phone number format"},
     {"Address is required"},
     {"Street address is required"},
     {"City is required"},
     {"State is required", "Invalid state code (must be 2-letter code like CA, NY)"},
     {"ZIP code is required", "Invalid ZIP code format"} >>
SlotOf(msg) ==
  IF \E k \in 1..Len(UserFieldMsgs) : msg \in UserFieldMsgs[k]
  THEN CHOOSE k \in 1..Len(UserFieldMsgs) : msg \in UserFieldMsgs[k]
  ELSE 0
CountOfSlot(k) == Cardinality({i \in 1..Len(Errors) : SlotOf(Errors[i]) = k})
OnePerFieldInOrder ==
  /\ \A i \in 1..Len(Errors) : SlotOf(Errors[i]) > 0
  /\ \A i \in 1..Len(Errors) : \A j \in 1..Len(Errors) :
       i < j => SlotOf(Errors[i]) < SlotOf(Errors[j])
SixPresenceErrors ==
  <<"Email is required", "First name is required", "Last name is required",
    "Date of birth is required", "Phone number is required", "Address is required">>
\* the parts of the address and what the documented format asks of each; a
\* ZIP code is judged when it is absent or a string
AddressPartMalformed(k, v) ==
  CASE k \in {7, 8} -> ~Text(v)
    [] k = 9 -> ~StateCode(v)
    [] k = 10 -> Missing(v) \/ (v.t = "string" /\ ~ZipRegexTest(v.s))
AddressPart(k) ==
  Get(Field("address"), Path("user", k)[2])

C12_OneErrorPerField ==
  last.fn = "validateUser" =>
    /\ Returns => OnePerFieldInOrder
    /\ (Returns /\ Field("address").t \in {"undefined", "null"}) =>
         (CountOfSlot(6) = 1 /\ \A k \in 7..10 : CountOfSlot(k) = 0)
    /\ last.arg = EmptyOf(ValidUser) =>
         (Returns /\ Errors = SixPresenceErrors /\ ~last.out.value.isValid)
    /\ Field("address").t \notin {"undefined", "null"} =>
         \A k \in 7..10 :
           AddressPartMalformed(k, AddressPart(k)) => (Returns /\ CountOfSlot(k) = 1)

(***************************************************************************)
(* C13 isInsuranceActive applies isActive as an override that defaults to  *)
(*     true: for a record whose effective date is not after now and whose  *)
(*     termination date is absent or not before now, the result is true    *)
(*     when isActive is absent or true and false when isActive is false;   *)
(*     and for every record whose isActive is false the result is false    *)
(*     whatever its dates are.  A date stands for the instant of its UTC   *)
(*     midnight, and now for the instant of the call.                      *)
(***************************************************************************)
InstantOf(v) == DayOf(v) * TicksPerDay
Active == last.out.value.b
InForce ==
  /\ last.fn = "isInsuranceActive"
  /\ RealDate(Field("effectiveDate")) /\ InstantOf(Field("effectiveDate")) <= last.now
  /\ \/ Field("terminationDate").t \in {"undefined", "null"}
     \/ /\ RealDate(Field("terminationDate"))
        /\ InstantOf(Field("terminationDate")) >= last.now

C13_IsActiveOverride ==
  last.fn = "isInsuranceActive" =>
    /\ Returns
    /\ InForce =>
         /\ Field("isActive") \in {Undefined, Null, Bool(TRUE)} => Active
         /\ Field("isActive") = Bool(FALSE) => ~Active
    /\ Field("isActive") = Bool(FALSE) => ~Active

\* a record in force with a termination date ahead, switched off by the flag
C13_Witness ==
  /\ InForce /\ RealDate(Field("terminationDate"))
  /\ Field("isActive") = Bool(FALSE)
  /\ ~Active

(***************************************************************************)
(* C14 isInsuranceActive returns true only for records whose effectiveDate *)
(*     parses to a valid date that is not after now: a record whose        *)
(*     effectiveDate is missing or unparseable, and likewise one whose     *)
(*     terminationDate is present but unparseable, is never reported       *)
(*     active.                                                             *)
(*     Stated as the claim; new Date of a missing or unparseable value is  *)
(*     an invalid date, every comparison with it is false, and the code    *)
(*     falls through to the isActive flag.                                 *)
(***************************************************************************)
Parses(v) == ~NewDate(v, engine).nan

C14_ActiveOnlyWithValidDates ==
  (last.fn = "isInsuranceActive" /\ Returns /\ Active) =>
    /\ Parses(Field("effectiveDate"))
    /\ NewDate(Field("effectiveDate"), engine).tv <= last.now
    /\ Truthy(Field("terminationDate")) => Parses(Field("terminationDate"))
====
